---- MODULE Spec2Model ----
(***************************************************************************)
(* Model of class Log (basicLogger.cpp): producers call write() under      *)
(* mLogMutex, the background thread mThread runs serialize(), and ~Log()   *)
(* requests shutdown and joins.                                            *)
(***************************************************************************)
EXTENDS Integers, Sequences, FiniteSets, TLC

\* Total number of write() calls explored (the queue itself is unbounded).
MaxAppends == 3

\* The producer threads of main(): the main thread, t1 and t2.
Threads == {"main", "t1", "t2"}

\* std::thread::id{} : the id that names no thread.
NoThread == "none"

\* What is streamed into the log: a printable value, or std::endl.
Values == {"txt", "endl"}

\* std::end(mLogQueue): the past-the-end iterator (stable under emplace_back).
End == 0

VARIABLES
    mLogQueue,          \* std::list<LogEntry>, as a sequence
    mCurrentLog,        \* iterator into mLogQueue: an index, or End
    mCurrentThreadId,   \* owner of the floor, or NoThread
    mClosing,
    mFlushed,
    mStream,            \* text held by mStream's LogBuf
    mLogMutex,          \* "free" or "serialize" (write and ~Log lock and unlock in one step)
    mNotificationVariable, \* a notify_one is pending for the blocked serialize thread
    serializePc,        \* position of mThread in serialize()
    dtorPc,             \* position of the thread running ~Log()
    cout,               \* std::cout: the sequence of strings written to it
    executed,           \* history: entries whose mFunctor has run, in order
    enqAtClose,         \* history: entries enqueued when ~Log() set mClosing
    notifyCalled        \* history: whether the latest write() called notify_one()

vars == <<mLogQueue, mCurrentLog, mCurrentThreadId, mClosing, mFlushed, mStream,
          mLogMutex, mNotificationVariable, serializePc, dtorPc, cout, executed,
          enqAtClose, notifyCalled>>

----------------------------------------------------------------------------
(* Pure helpers *)

\* LogEntry: the producing thread, and the value its functor captured
\* (n is the position of the call among the calls of that thread).
LogEntry(t, k, v) == [mThreadId |-> t, n |-> k, value |-> v]

\* Entries of thread t in a sequence of entries.
OfThread(s, t) == SelectSeq(s, LAMBDA e : e.mThreadId = t)

\* Number of write() calls thread t has completed.
Appended(t) == Len(OfThread(executed, t)) + Len(OfThread(mLogQueue, t))

TotalAppended == Len(executed) + Len(mLogQueue)

\* operator<< on mStream: the text a value renders to.
Render(e) ==
    <<[t |-> e.mThreadId, n |-> e.n, c |-> IF e.value = "endl" THEN "\n" ELSE "v"]>>

\* Faulty variant of Syncs: every value streamed flushes the stream.
SyncsAlways(v) == TRUE

\* Whether streaming the value flushes the stream (std::endl does), which
\* reaches LogBuf::sync() and so handleSync().
Syncs(v) == v = "endl"

\* handleSync(): the value mFlushed takes.
handleSync == TRUE

\* Faulty variant of Erase: nothing is erased.
EraseNothing(q, i) == q

\* Faulty variant of Erase: the head is erased, whatever the iterator.
EraseHead(q, i) == Tail(q)

\* std::list::erase(it): the list without the element at index i.
Erase(q, i) == SubSeq(q, 1, i - 1) \o SubSeq(q, i + 1, Len(q))

\* Faulty variant of AfterErase: the result of erase() is dropped for end().
AfterEraseIsEnd(q, i) == End

\* The iterator erase() returns (the element after the erased one), as an
\* index into the list after the erasure.
AfterErase(q, i) == IF i <= Len(q) - 1 THEN i ELSE End

\* Faulty variant of Begin: the last element instead of the first.
BeginIsLast(q) == Len(q)

\* std::begin(q).
Begin(q) == IF Len(q) = 0 THEN End ELSE 1

\* ++it.
Succ(q, i) == IF i < Len(q) THEN i + 1 ELSE End

\* Faulty variant of PrevEnd: the head instead of the last element.
PrevEndIsBegin(q) == Begin(q)

\* std::prev(std::end(q)): the last element.
PrevEnd(q) == Len(q)

\* Faulty variant of FindIf: the search stops at the first entry, whatever its thread.
FindIfAnyThread(q, from, id) == from

\* Faulty variant of FindIf: the search gives up and returns end().
FindIfGivesUp(q, from, id) == End

\* std::find_if(from, end, entry.mThreadId == id).
FindIf(q, from, id) ==
    IF from = End THEN End
    ELSE LET hits == {i \in from..Len(q) : q[i].mThreadId = id}
         IN  IF hits = {} THEN End
             ELSE CHOOSE i \in hits : \A j \in hits : i <= j

\* Faulty variant of WaitPredicate: mClosing is not part of the predicate.
WaitPredicateNoClosing == mCurrentLog # End

\* The predicate serialize() waits for.
WaitPredicate == mClosing \/ mCurrentLog # End

\* The condition of the do-while loop.
LoopCondition(q, cur, id) == cur # End /\ id = q[cur].mThreadId

----------------------------------------------------------------------------
Init ==
    /\ mLogQueue = <<>>
    /\ mCurrentLog = End
    /\ mCurrentThreadId = NoThread
    /\ mClosing = FALSE
    /\ mFlushed = FALSE
    /\ mStream = <<>>
    /\ mLogMutex = "free"
    /\ mNotificationVariable = FALSE
    /\ serializePc = "lock"
    /\ dtorPc = "alive"
    /\ cout = <<>>
    /\ executed = <<>>
    /\ enqAtClose = {}
    /\ notifyCalled = FALSE

----------------------------------------------------------------------------
(* Producers *)

\* Faulty variant of NotifyOne: the notification is not sent.
NotifyOneLost == mNotificationVariable

\* notify_one(): wakes the serialize thread if it is blocked in wait().
NotifyOne == serializePc = "blocked" \/ mNotificationVariable

\* Faulty variant of FloorIsFree: an owner with nothing pending counts as no owner.
FloorIsFreeOrIdle == mCurrentThreadId = NoThread \/ mCurrentLog = End

\* mCurrentThreadId == std::thread::id{} : no thread holds the floor.
FloorIsFree == mCurrentThreadId = NoThread

\* Log::write(value) called by thread id: one critical section.
write(id, v) ==
    /\ dtorPc # "returned"
    /\ mLogMutex = "free"
    /\ TotalAppended < MaxAppends
    /\ LET q == Append(mLogQueue, LogEntry(id, Appended(id) + 1, v))
       IN  /\ mLogQueue' = q
           /\ IF FloorIsFree
              THEN /\ mCurrentLog' = Begin(q)
                   /\ mCurrentThreadId' = q[Begin(q)].mThreadId
                   /\ mNotificationVariable' = NotifyOne
                   /\ notifyCalled' = TRUE
              ELSE IF mCurrentThreadId = id
              THEN /\ mCurrentLog' = IF mCurrentLog = End THEN PrevEnd(q) ELSE mCurrentLog
                   /\ mCurrentThreadId' = mCurrentThreadId
                   /\ mNotificationVariable' = NotifyOne
                   /\ notifyCalled' = TRUE
              ELSE /\ notifyCalled' = FALSE
                   /\ UNCHANGED <<mCurrentLog, mCurrentThreadId, mNotificationVariable>>
    /\ UNCHANGED <<mClosing, mFlushed, mStream, mLogMutex, serializePc, dtorPc,
                   cout, executed, enqAtClose>>

----------------------------------------------------------------------------
(* serialize(), run by mThread *)

\* mCurrentLog->mFunctor(): stream the captured value into mStream.
Functor(e) ==
    /\ mStream' = mStream \o Render(e)
    /\ mFlushed' = IF Syncs(e.value) THEN handleSync ELSE mFlushed
    /\ executed' = Append(executed, e)

\* Faulty variant of flush: the buffer is written but not cleared.
flushKeepsText ==
    /\ cout' = Append(cout, mStream)
    /\ mStream' = mStream
    /\ mFlushed' = FALSE

\* Log::flush(): write the buffered text to std::cout and clear the buffer.
flush ==
    /\ cout' = Append(cout, mStream)
    /\ mStream' = <<>>
    /\ mFlushed' = FALSE

\* Faulty variant of LockScope: the lock is dropped once the wait is over.
LockScopeWaitOnly == "free"

\* The unique_lock lives to the end of the loop body: past the wait the
\* mutex stays with the serialize thread.
LockScope == "serialize"

\* std::unique_lock lock{mLogMutex} at the top of the loop.
SerializeLock ==
    /\ serializePc = "lock"
    /\ mLogMutex = "free"
    /\ mLogMutex' = "serialize"
    /\ serializePc' = "wait"
    /\ UNCHANGED <<mLogQueue, mCurrentLog, mCurrentThreadId, mClosing, mFlushed,
                   mStream, mNotificationVariable, dtorPc, cout, executed, enqAtClose,
                   notifyCalled>>

\* wait(lock, predicate): go on if the predicate holds, else release the
\* mutex and block; then the test of mClosing.
SerializeWait ==
    /\ serializePc = "wait"
    /\ IF WaitPredicate
       THEN /\ serializePc' = IF mClosing THEN "closing" ELSE "exec"
            /\ mLogMutex' = LockScope
            /\ UNCHANGED mNotificationVariable
       ELSE /\ serializePc' = "blocked"
            /\ mLogMutex' = "free"
            /\ mNotificationVariable' = FALSE
    /\ UNCHANGED <<mLogQueue, mCurrentLog, mCurrentThreadId, mClosing, mFlushed,
                   mStream, dtorPc, cout, executed, enqAtClose,
                   notifyCalled>>

\* A notified wait() re-acquires the mutex and tests the predicate again.
SerializeWake ==
    /\ serializePc = "blocked"
    /\ mNotificationVariable
    /\ mLogMutex = "free"
    /\ mLogMutex' = "serialize"
    /\ mNotificationVariable' = FALSE
    /\ serializePc' = "wait"
    /\ UNCHANGED <<mLogQueue, mCurrentLog, mCurrentThreadId, mClosing, mFlushed,
                   mStream, dtorPc, cout, executed, enqAtClose,
                   notifyCalled>>

\* wait() may also wake without a notification.
SerializeSpuriousWake ==
    /\ serializePc = "blocked"
    /\ ~mNotificationVariable
    /\ mLogMutex = "free"
    /\ mLogMutex' = "serialize"
    /\ serializePc' = "wait"
    /\ UNCHANGED <<mLogQueue, mCurrentLog, mCurrentThreadId, mClosing, mFlushed,
                   mStream, mNotificationVariable, dtorPc, cout, executed, enqAtClose,
                   notifyCalled>>

\* Normal path: run the functor at mCurrentLog, then test mFlushed.
SerializeExec ==
    /\ serializePc = "exec"
    /\ Functor(mLogQueue[mCurrentLog])
    /\ serializePc' = IF mFlushed' THEN "flush" ELSE "advance"
    /\ UNCHANGED <<mLogQueue, mCurrentLog, mCurrentThreadId, mClosing, mLogMutex,
                   mNotificationVariable, dtorPc, cout, enqAtClose,
                   notifyCalled>>

\* Normal path, mFlushed: flush().
SerializeFlush ==
    /\ serializePc = "flush"
    /\ flush
    /\ serializePc' = "rotate"
    /\ UNCHANGED <<mLogQueue, mCurrentLog, mCurrentThreadId, mClosing, mLogMutex,
                   mNotificationVariable, dtorPc, executed, enqAtClose,
                   notifyCalled>>

\* Normal path after flush(): erase the entry, restart at the head of the
\* queue and give the floor to the head's thread; leave the loop (and the
\* critical section) when the queue is empty or the loop condition fails.
SerializeRotate ==
    /\ serializePc = "rotate"
    /\ LET q == Erase(mLogQueue, mCurrentLog)
           cur == Begin(q)
       IN  /\ mLogQueue' = q
           /\ mCurrentLog' = cur
           /\ IF cur = End
              THEN /\ mCurrentThreadId' = NoThread
                   /\ serializePc' = "lock"
                   /\ mLogMutex' = "free"
              ELSE /\ mCurrentThreadId' = q[cur].mThreadId
                   /\ IF LoopCondition(q, cur, q[cur].mThreadId)
                      THEN /\ serializePc' = "exec"
                           /\ UNCHANGED mLogMutex
                      ELSE /\ serializePc' = "lock"
                           /\ mLogMutex' = "free"
    /\ UNCHANGED <<mClosing, mFlushed, mStream, mNotificationVariable, dtorPc,
                   cout, executed, enqAtClose,
                   notifyCalled>>

\* Normal path, not flushed: erase the entry and move to the owner's next
\* entry; leave the loop when there is none.
SerializeAdvance ==
    /\ serializePc = "advance"
    /\ LET q == Erase(mLogQueue, mCurrentLog)
           cur == FindIf(q, AfterErase(mLogQueue, mCurrentLog), mCurrentThreadId)
       IN  /\ mLogQueue' = q
           /\ mCurrentLog' = cur
           /\ IF LoopCondition(q, cur, mCurrentThreadId)
              THEN /\ serializePc' = "exec"
                   /\ UNCHANGED mLogMutex
              ELSE /\ serializePc' = "lock"
                   /\ mLogMutex' = "free"
    /\ UNCHANGED <<mCurrentThreadId, mClosing, mFlushed, mStream,
                   mNotificationVariable, dtorPc, cout, executed, enqAtClose,
                   notifyCalled>>

\* Closing path, outer loop: while the queue is not empty, restart at the
\* head when the iterator is at the end.
SerializeClosing ==
    /\ serializePc = "closing"
    /\ IF mLogQueue = <<>>
       THEN /\ serializePc' = "finalflush"
            /\ UNCHANGED <<mCurrentLog, mCurrentThreadId>>
       ELSE /\ serializePc' = "inner"
            /\ IF mCurrentLog = End
               THEN /\ mCurrentLog' = Begin(mLogQueue)
                    /\ mCurrentThreadId' = mLogQueue[Begin(mLogQueue)].mThreadId
               ELSE UNCHANGED <<mCurrentLog, mCurrentThreadId>>
    /\ UNCHANGED <<mLogQueue, mClosing, mFlushed, mStream, mLogMutex,
                   mNotificationVariable, dtorPc, cout, executed, enqAtClose,
                   notifyCalled>>

\* Closing path, one turn of the inner loop: run and erase an entry of the
\* current thread, step over an entry of another thread.
SerializeInner ==
    /\ serializePc = "inner"
    /\ IF mCurrentLog = End
       THEN /\ serializePc' = "closing"
            /\ UNCHANGED <<mLogQueue, mCurrentLog, mFlushed, mStream, executed>>
       ELSE /\ serializePc' = "inner"
            /\ IF mCurrentThreadId = mLogQueue[mCurrentLog].mThreadId
               THEN /\ Functor(mLogQueue[mCurrentLog])
                    /\ mLogQueue' = Erase(mLogQueue, mCurrentLog)
                    /\ mCurrentLog' = AfterErase(mLogQueue, mCurrentLog)
               ELSE /\ mCurrentLog' = Succ(mLogQueue, mCurrentLog)
                    /\ UNCHANGED <<mLogQueue, mFlushed, mStream, executed>>
    /\ UNCHANGED <<mCurrentThreadId, mClosing, mLogMutex, mNotificationVariable,
                   dtorPc, cout, enqAtClose,
                   notifyCalled>>

\* Closing path: the final flush(), then break (the lock is released).
SerializeFinalFlush ==
    /\ serializePc = "finalflush"
    /\ flush
    /\ serializePc' = "done"
    /\ mLogMutex' = "free"
    /\ UNCHANGED <<mLogQueue, mCurrentLog, mCurrentThreadId, mClosing,
                   mNotificationVariable, dtorPc, executed, enqAtClose,
                   notifyCalled>>

serialize ==
    \/ SerializeLock
    \/ SerializeWait
    \/ SerializeWake
    \/ SerializeExec
    \/ SerializeFlush
    \/ SerializeRotate
    \/ SerializeAdvance
    \/ SerializeClosing
    \/ SerializeInner
    \/ SerializeFinalFlush

----------------------------------------------------------------------------
(* ~Log() *)

\* { lock_guard lock{mLogMutex}; mClosing = true; }
DtorSetClosing ==
    /\ dtorPc = "alive"
    /\ mLogMutex = "free"
    /\ mClosing' = TRUE
    /\ dtorPc' = "notify"
    /\ enqAtClose' = {[mThreadId |-> e.mThreadId, n |-> e.n] :
                         e \in {mLogQueue[i] : i \in 1..Len(mLogQueue)}
                               \cup {executed[i] : i \in 1..Len(executed)}}
    /\ UNCHANGED <<mLogQueue, mCurrentLog, mCurrentThreadId, mFlushed, mStream,
                   mLogMutex, mNotificationVariable, serializePc, cout, executed,
                   notifyCalled>>

\* mNotificationVariable.notify_one()
DtorNotify ==
    /\ dtorPc = "notify"
    /\ mNotificationVariable' = NotifyOne
    /\ dtorPc' = "join"
    /\ UNCHANGED <<mLogQueue, mCurrentLog, mCurrentThreadId, mClosing, mFlushed,
                   mStream, mLogMutex, serializePc, cout, executed, enqAtClose,
                   notifyCalled>>

\* mThread.join() returns once serialize() has returned.
DtorJoin ==
    /\ dtorPc = "join"
    /\ serializePc = "done"
    /\ dtorPc' = "returned"
    /\ UNCHANGED <<mLogQueue, mCurrentLog, mCurrentThreadId, mClosing, mFlushed,
                   mStream, mLogMutex, mNotificationVariable, serializePc, cout,
                   executed, enqAtClose,
                   notifyCalled>>

----------------------------------------------------------------------------
Next ==
    \/ \E id \in Threads, v \in Values : write(id, v)
    \/ SerializeLock
    \/ SerializeWait
    \/ SerializeWake
    \/ SerializeSpuriousWake
    \/ SerializeExec
    \/ SerializeFlush
    \/ SerializeRotate
    \/ SerializeAdvance
    \/ SerializeClosing
    \/ SerializeInner
    \/ SerializeFinalFlush
    \/ DtorSetClosing
    \/ DtorNotify
    \/ DtorJoin

Spec == Init /\ [][Next]_vars

\* The scheduler runs the serialize thread and the thread inside ~Log()
\* whenever they can take a step; producers and the shutdown request are
\* free to happen or not.
FairSpec ==
    /\ Spec
    /\ WF_vars(serialize)
    /\ WF_vars(DtorNotify)
    /\ WF_vars(DtorJoin)

----------------------------------------------------------------------------
(* Vocabulary of the properties *)

Range(s) == {s[i] : i \in 1..Len(s)}

\* std::endl is the flush token.
IsFlushToken(v) == v = "endl"

Last(s) == s[Len(s)]

\* Every entry ever appended: the executed ones and the queued ones.
AllEntries == Range(executed) \cup Range(mLogQueue)

\* The k-th value thread t appended.
EntryOf(t, k) == CHOOSE e \in AllEntries : e.mThreadId = t /\ e.n = k

\* Concatenation of a sequence of sequences.
RECURSIVE Flatten(_)
Flatten(ss) == IF ss = <<>> THEN <<>> ELSE Head(ss) \o Flatten(Tail(ss))

\* The text a sequence of entries renders to, in order.
RenderAll(es) == Flatten([i \in 1..Len(es) |-> Render(es[i])])

\* First call of the line of thread t that its k-th call belongs to: the
\* call after t's last flush token before k.
LineStart(t, k) ==
    LET flushes == {m \in 1..(k - 1) : IsFlushToken(EntryOf(t, m).value)}
    IN  IF flushes = {} THEN 1
        ELSE 1 + CHOOSE m \in flushes : \A x \in flushes : x <= m

\* The rendered values of that line, in call order.
LineText(t, k) ==
    RenderAll([i \in 1..(k - LineStart(t, k) + 1) |-> EntryOf(t, LineStart(t, k) + i - 1)])

\* The string is exactly one thread's line: the values from after its
\* previous flush token up to and including a flush token.
IsLineOfOneThread(s) ==
    /\ s # <<>>
    /\ Last(s).c = "\n"
    /\ s = LineText(Last(s).t, Last(s).n)

NormalPcs == {"exec", "flush", "rotate", "advance"}

ClosingPcs == {"closing", "inner", "finalflush", "done"}

\* The closing path has not been entered.
BeforeClosingPath == serializePc \notin ClosingPcs

FlushTokensExecuted == Cardinality({i \in 1..Len(executed) : IsFlushToken(executed[i].value)})

----------------------------------------------------------------------------
\* C1 (as stated): every string written to std::cout that carries the text
\* of a flush token of thread T is exactly T's values of that line in call
\* order, with no text of another thread, shutdown included.
C1_EveryEmissionIsOneLine ==
    \A i \in 1..Len(cout) :
        \A j \in 1..Len(cout[i]) :
            cout[i][j].c = "\n" => cout[i] = LineText(cout[i][j].t, cout[i][j].n)

\* C1 (amended): every string written to std::cout by the normal path is
\* exactly one thread's line in call order; only the write of the closing
\* path's final flush (the last one, made on reaching "done") is exempt.
C1_NormalEmissionIsOneLine ==
    \A i \in 1..Len(cout) :
        \/ serializePc = "done" /\ i = Len(cout)
        \/ IsLineOfOneThread(cout[i])

\* A line of two values was written while another thread's entry was queued.
C1_Witness ==
    /\ ~mClosing
    /\ \E i \in 1..Len(cout) : Len(cout[i]) >= 2
    /\ mLogQueue # <<>>

\* C2: the entries of each thread are executed in the order of the calls,
\* and two executed entries of a thread with no flush token of that thread
\* from the first up to the second have only that thread's entries between.
C2_PerThreadOrderNoInterleave ==
    /\ \A t \in Threads :
          \A k \in 1..Len(OfThread(executed, t)) : OfThread(executed, t)[k].n = k
    /\ \A i \in 1..Len(executed) : \A j \in (i + 1)..Len(executed) :
          ( /\ executed[i].mThreadId = executed[j].mThreadId
            /\ \A m \in i..(j - 1) :
                  executed[m].mThreadId = executed[i].mThreadId
                      => ~IsFlushToken(executed[m].value) )
          => \A m \in i..j : executed[m].mThreadId = executed[i].mThreadId

\* Two values of one thread without a flush between were executed, an
\* entry of another thread was executed too.
C2_Witness ==
    \E i \in 1..Len(executed) : \E j \in (i + 1)..Len(executed) :
        /\ executed[i].mThreadId = executed[j].mThreadId
        /\ \A m \in i..(j - 1) : ~IsFlushToken(executed[m].value)
        /\ \E m \in 1..Len(executed) : executed[m].mThreadId # executed[i].mThreadId

\* C3 (as stated): when ~Log() has returned, every entry enqueued before
\* mClosing was set has been executed and removed, the queue is empty and
\* the buffer is empty.
C3_AllDrainedAtReturn ==
    dtorPc = "returned" =>
        /\ \A x \in enqAtClose :
              /\ \E e \in Range(executed) : e.mThreadId = x.mThreadId /\ e.n = x.n
              /\ ~\E e \in Range(mLogQueue) : e.mThreadId = x.mThreadId /\ e.n = x.n
        /\ mLogQueue = <<>>
        /\ mStream = <<>>

InQueue(t, k) == \E e \in Range(mLogQueue) : e.mThreadId = t /\ e.n = k

WasExecuted(t, k) ==
    /\ \E e \in Range(executed) : e.mThreadId = t /\ e.n = k
    /\ ~InQueue(t, k)

\* The serialize thread waits while a thread other than t holds the floor
\* with nothing pending and no shutdown is requested.
StalledBehindOwner(t) ==
    /\ serializePc = "blocked"
    /\ ~mClosing
    /\ mCurrentLog = End
    /\ mCurrentThreadId \notin {NoThread, t}

\* C4 (as stated, in the executions it singles out, those in which shutdown
\* is never requested): every queued entry is eventually executed and
\* removed.
C4_NoStarvation ==
    \A t \in Threads : \A k \in 1..MaxAppends :
        InQueue(t, k) ~> (WasExecuted(t, k) \/ mClosing)

\* C4 (amended): the serialize thread never rests on an entry it could
\* execute. Again and again every entry still queued either waits behind
\* another thread that holds the floor without having flushed, or was left
\* by a write() made after serialize() returned; an entry leaves the queue
\* only by being executed, and serialize() returns only with the queue empty.
C4_ExecutedOrStalled ==
    /\ []<>(\A e \in Range(mLogQueue) :
               StalledBehindOwner(e.mThreadId) \/ serializePc = "done")
    /\ [][/\ \A e \in Range(mLogQueue) \ Range(mLogQueue') : e \in Range(executed')
          /\ (serializePc # "done" /\ serializePc' = "done") => mLogQueue' = <<>>]_vars

\* Without shutdown, an entry that had to wait for another thread's flush
\* has been executed.
C4_Witness ==
    /\ ~mClosing
    /\ \E i \in 1..Len(executed) : \E j \in (i + 1)..Len(executed) :
          executed[i].mThreadId # executed[j].mThreadId

C6_OwnerChangesOnlyAtFlush ==
    [][mCurrentThreadId' # mCurrentThreadId =>
          (serializePc = "rotate" \/ mCurrentThreadId = NoThread)]_vars

\* C6 (amended): as C6, except on the closing path, where the floor goes
\* to the head's thread whenever the iterator is at the end, without flush.
C6_OwnerChangesAtFlushOrClosing ==
    [][mCurrentThreadId' # mCurrentThreadId =>
          (serializePc = "rotate" \/ mCurrentThreadId = NoThread
             \/ serializePc = "closing")]_vars

\* On the normal path the floor has passed from the thread whose flush
\* token was just written to another thread.
C6_Witness ==
    /\ BeforeClosingPath
    /\ serializePc = "exec"
    /\ executed # <<>>
    /\ IsFlushToken(Last(executed).value)
    /\ Last(executed).mThreadId # mCurrentThreadId
    /\ cout # <<>>

\* C7: once mClosing is set, serialize() returns and ~Log() returns.
C7_ShutdownTerminates ==
    mClosing ~> (serializePc = "done" /\ dtorPc = "returned")

\* ~Log() has returned after a shutdown requested with two or more entries
\* still queued.
C7_Witness ==
    /\ dtorPc = "returned"
    /\ Cardinality(enqAtClose) >= 2
    /\ \E x \in enqAtClose : \E i \in 1..Len(cout) : \E j \in 1..Len(cout[i]) :
          i = Len(cout) /\ cout[i][j].t = x.mThreadId /\ cout[i][j].n = x.n

\* C8: while no flush token has been executed and mClosing is not set,
\* nothing has been written to std::cout.
C8_NoFlushNoOutput ==
    (FlushTokensExecuted = 0 /\ ~mClosing) => cout = <<>>

\* Two threads have appended, values were executed, none a flush token,
\* and nothing was written.
C8_Witness ==
    /\ ~mClosing
    /\ Len(executed) >= 2
    /\ FlushTokensExecuted = 0
    /\ \E e \in Range(mLogQueue) : e.mThreadId # mCurrentThreadId
    /\ cout = <<>>

\* Entries of threads other than id, in queue order.
Foreign(q, id) == SelectSeq(q, LAMBDA e : e.mThreadId # id)

IsPrefix(s, t) == Len(s) <= Len(t) /\ s = SubSeq(t, 1, Len(s))

\* C9: before the closing path no step removes or reorders an entry of a
\* thread other than the owner, and the normal path executes only entries
\* of the owner.
C9_ForeignEntriesUntouched ==
    [][BeforeClosingPath =>
          /\ IsPrefix(Foreign(mLogQueue, mCurrentThreadId),
                      Foreign(mLogQueue', mCurrentThreadId))
          /\ (serializePc \in NormalPcs =>
                Foreign(mLogQueue', mCurrentThreadId) = Foreign(mLogQueue, mCurrentThreadId))
          /\ (executed' # executed =>
                /\ executed' = Append(executed, mLogQueue[mCurrentLog])
                /\ mLogQueue[mCurrentLog].mThreadId = mCurrentThreadId)]_vars

\* The owner's flush has been written out while an entry of another thread,
\* queued ahead of the flush token, is still in the queue.
C9_Witness ==
    /\ serializePc = "rotate"
    /\ mCurrentLog > 1
    /\ \E i \in 1..(mCurrentLog - 1) : mLogQueue[i].mThreadId # mCurrentThreadId

\* C10 (as stated): every executed flush token after which another entry
\* was executed ended a string written to std::cout.
C10_WriteAfterEveryFlushToken ==
    \A i \in 1..(Len(executed) - 1) :
        IsFlushToken(executed[i].value) =>
            \E j \in 1..Len(cout) :
                cout[j] # <<>> /\ Last(cout[j]) = Last(Render(executed[i]))

\* C10 (amended): before the closing path there is one write per executed
\* flush token, made before the next entry is executed, and the writes
\* carry all the text rendered so far but the buffered rest; after the
\* closing path everything rendered has been written.
C10_OneWritePerFlushOnNormalPath ==
    /\ BeforeClosingPath =>
          /\ C10_WriteAfterEveryFlushToken
          /\ Len(cout) = FlushTokensExecuted - (IF serializePc = "flush" THEN 1 ELSE 0)
          /\ Flatten(cout) \o mStream = RenderAll(executed)
    /\ serializePc = "done" =>
          /\ mStream = <<>>
          /\ Flatten(cout) = RenderAll(executed)

\* On the normal path an entry was executed after a flush token.
C10_Witness ==
    /\ BeforeClosingPath
    /\ \E i \in 1..(Len(executed) - 1) : IsFlushToken(executed[i].value)

\* A step that is a call of write(): the queue grows by one entry, the
\* caller's.
IsWriteStep == Len(mLogQueue') = Len(mLogQueue) + 1

Caller == Last(mLogQueue').mThreadId

\* C11: a write() made while no thread holds the floor gives the floor to
\* the caller, sets the iterator to the entry just appended and calls
\* notify_one() (which marks a blocked serialize thread as notified).
C11_AppendOnFreeFloorClaims ==
    [][(IsWriteStep /\ mCurrentThreadId = NoThread) =>
          /\ mCurrentThreadId' = Caller
          /\ mCurrentLog' = Len(mLogQueue')
          /\ notifyCalled'
          /\ (serializePc = "blocked" => mNotificationVariable')]_vars

\* After a flush released the floor, another thread has appended and taken
\* it, and the blocked serialize thread is notified.
C11_Witness ==
    /\ ~mClosing
    /\ cout # <<>>
    /\ Len(mLogQueue) = 1
    /\ mCurrentLog = 1
    /\ mCurrentThreadId = mLogQueue[1].mThreadId
    /\ Last(executed).mThreadId # mCurrentThreadId
    /\ serializePc = "blocked"
    /\ mNotificationVariable
    /\ notifyCalled

\* C12 (as stated): a write() made while another thread holds the floor, or
\* by the owner while the iterator is not at the end, only appends: no
\* notify_one(), owner and iterator unchanged.
C12_AppendOnlyNoSignal ==
    [][(/\ IsWriteStep
        /\ mCurrentThreadId # NoThread
        /\ (mCurrentThreadId # Caller \/ mCurrentLog # End)) =>
          /\ ~notifyCalled'
          /\ mNotificationVariable' = mNotificationVariable
          /\ mCurrentThreadId' = mCurrentThreadId
          /\ mCurrentLog' = mCurrentLog]_vars

\* C12 (amended): both kinds of write() leave owner and iterator
\* unchanged; the one made while another thread holds the floor does not
\* call notify_one(); the owner's, made while the iterator is not at the
\* end, does call it, and the call changes nothing (a blocked serialize
\* thread was notified already).
C12_AppendOnlyOwnerStillSignals ==
    [][(/\ IsWriteStep
        /\ mCurrentThreadId # NoThread
        /\ (mCurrentThreadId # Caller \/ mCurrentLog # End)) =>
          /\ notifyCalled' = (mCurrentThreadId = Caller)
          /\ mNotificationVariable' = mNotificationVariable
          /\ mCurrentThreadId' = mCurrentThreadId
          /\ mCurrentLog' = mCurrentLog]_vars

\* The owner has appended while its earlier entry was still pending, and
\* before that another thread had appended behind the owner.
C12_Witness ==
    /\ mLogMutex = "free"
    /\ notifyCalled
    /\ Len(mLogQueue) = 3
    /\ mCurrentLog = 1
    /\ mLogQueue[1].mThreadId = mCurrentThreadId
    /\ mLogQueue[2].mThreadId # mCurrentThreadId
    /\ mLogQueue[3].mThreadId = mCurrentThreadId

\* The sequence q without its i-th element, the others in order.
Without(q, i) == [j \in 1..(Len(q) - 1) |-> IF j < i THEN q[j] ELSE q[j + 1]]

\* C13: the step after flush() removes the flush-token entry just
\* executed; with the queue then empty the floor is free, the iterator at
\* the end and the serialize thread back at its wait; otherwise the floor
\* goes to the thread of the head entry and the iterator to the head.
C13_RotationAfterFlush ==
    [][serializePc = "rotate" =>
          /\ mLogQueue[mCurrentLog] = Last(executed)
          /\ IsFlushToken(Last(executed).value)
          /\ mLogQueue' = Without(mLogQueue, mCurrentLog)
          /\ IF mLogQueue' = <<>>
             THEN /\ mCurrentThreadId' = NoThread
                  /\ mCurrentLog' = End
                  /\ serializePc' = "lock"
                  /\ mLogMutex' = "free"
             ELSE /\ mCurrentThreadId' = Head(mLogQueue').mThreadId
                  /\ mCurrentLog' = 1
                  /\ serializePc' = "exec"]_vars

\* After a flush the floor went to the thread at the head although an
\* entry of the thread that flushed is queued behind it.
C13_Witness ==
    /\ serializePc = "exec"
    /\ executed # <<>>
    /\ IsFlushToken(Last(executed).value)
    /\ Len(mLogQueue) = 2
    /\ mCurrentLog = 1
    /\ mCurrentThreadId = mLogQueue[1].mThreadId
    /\ mCurrentThreadId # Last(executed).mThreadId
    /\ mLogQueue[2].mThreadId = Last(executed).mThreadId

\* C14: the step after a non-flush entry was executed on the normal path
\* removes that entry and moves the iterator to the owner's next entry
\* behind it, or to the end when there is none (the serialize thread then
\* goes back to its wait); the owner is unchanged.
C14_AdvanceAfterNonFlush ==
    [][serializePc = "advance" =>
          /\ mLogQueue[mCurrentLog] = Last(executed)
          /\ ~IsFlushToken(Last(executed).value)
          /\ mLogQueue' = Without(mLogQueue, mCurrentLog)
          /\ mCurrentThreadId' = mCurrentThreadId
          /\ LET later == {i \in mCurrentLog..Len(mLogQueue') :
                              mLogQueue'[i].mThreadId = mCurrentThreadId}
             IN  IF later = {}
                 THEN /\ mCurrentLog' = End
                      /\ serializePc' = "lock"
                      /\ mLogMutex' = "free"
                 ELSE /\ mCurrentLog' \in later
                      /\ \A j \in later : mCurrentLog' <= j
                      /\ serializePc' = "exec"]_vars

\* The owner ran dry without a flush and keeps the floor while the
\* serialize thread waits and another thread's entry stays queued.
C14_Witness ==
    /\ serializePc = "blocked"
    /\ ~mClosing
    /\ mCurrentThreadId # NoThread
    /\ mCurrentLog = End
    /\ mLogQueue # <<>>
    /\ Len(executed) >= 2
    /\ \A i \in 1..Len(executed) : ~IsFlushToken(executed[i].value)

\* The iterator designates an entry of the queue that the owner produced.
CursorOnOwnersEntry ==
    /\ mCurrentLog \in 1..Len(mLogQueue)
    /\ mLogQueue[mCurrentLog].mThreadId = mCurrentThreadId

\* C15: whenever the mutex is free the iterator is at the end or on an
\* entry of the queue produced by the owner, and the entry the normal path
\* is about to execute is the owner's.
C15_CursorValid ==
    /\ mLogMutex = "free" => (mCurrentLog = End \/ CursorOnOwnersEntry)
    /\ serializePc = "exec" => CursorOnOwnersEntry

\* After the shutdown request, with the mutex free, the iterator is on an
\* entry of the owner behind an entry of another thread.
C15_Witness ==
    /\ mLogMutex = "free"
    /\ mClosing
    /\ mCurrentLog > 1
    /\ CursorOnOwnersEntry
    /\ mLogQueue[1].mThreadId # mCurrentThreadId

\* A sequence of entries holds no entry twice.
NoRepeats(s) == \A i \in 1..Len(s) : \A j \in (i + 1)..Len(s) : s[i] # s[j]

\* C16: no entry is executed twice or queued twice; an entry is both
\* executed and queued only between its execution and its removal on the
\* normal path; entries are executed and removed only by the serialize
\* thread; an entry executed is one of the queue, and an entry that leaves
\* the queue has been executed.
C16_ExecutedOnceRemovedOnce ==
    /\ [](/\ NoRepeats(executed)
          /\ NoRepeats(mLogQueue)
          /\ \A e \in Range(mLogQueue) \cap Range(executed) :
                /\ serializePc \in {"flush", "rotate", "advance"}
                /\ e = Last(executed)
                /\ e = mLogQueue[mCurrentLog])
    /\ [][/\ (executed' # executed \/ Len(mLogQueue') < Len(mLogQueue)) =>
                mLogMutex = "serialize"
          /\ executed' # executed =>
                \E e \in Range(mLogQueue) : executed' = Append(executed, e)
          /\ \A e \in Range(mLogQueue) \ Range(mLogQueue') :
                e \in Range(executed')]_vars

\* serialize() has returned after executing entries on the normal path and
\* on the closing path, and the queue is empty.
C16_Witness ==
    /\ serializePc = "done"
    /\ mLogQueue = <<>>
    /\ Len(executed) = MaxAppends
    /\ Len(cout) >= 2
    /\ Last(cout) # <<>>

\* C17: on the closing path every entry executed is the oldest queued entry
\* of the thread that has the floor and is removed with it; the floor
\* passes on only when no entry of that thread is queued; nothing is
\* written to std::cout before the queue is empty, and then the buffer is
\* written once and serialize() returns.
C17_ClosingDrainsGroupedByThread ==
    [][/\ (serializePc = "inner" /\ executed' # executed) =>
             /\ OfThread(mLogQueue, mCurrentThreadId) # <<>>
             /\ executed' = Append(executed, Head(OfThread(mLogQueue, mCurrentThreadId)))
             /\ mLogQueue' = Without(mLogQueue, mCurrentLog)
             /\ mLogQueue[mCurrentLog] = Last(executed')
       /\ (serializePc \in {"closing", "inner"} /\ mCurrentThreadId' # mCurrentThreadId) =>
             OfThread(mLogQueue, mCurrentThreadId) = <<>>
       /\ serializePc \in {"closing", "inner"} => cout' = cout
       /\ serializePc' = "finalflush" => mLogQueue' = <<>>
       /\ (serializePc = "finalflush" /\ serializePc' # serializePc) =>
             /\ mLogQueue = <<>>
             /\ cout' = Append(cout, mStream)
             /\ serializePc' = "done"]_vars

\* The final flush wrote three values of two threads drained by the closing
\* path.
C17_Witness ==
    /\ serializePc = "done"
    /\ cout # <<>>
    /\ Len(Last(cout)) = 3
    /\ \E i, j \in 1..3 : Last(cout)[i].t # Last(cout)[j].t

\* C18 (as stated): once mClosing is set no write() adds an entry, and no
\* entry is in the queue once serialize() has returned.
C18_NoAppendAfterClosing ==
    /\ [][mClosing => ~IsWriteStep]_vars
    /\ [](serializePc = "done" => mLogQueue = <<>>)

\* What serialize() waits for, in the words of the claims.
WaitConditionTrue == mClosing \/ mCurrentLog # End

\* C19: no lost wake-up. A write() that makes the wait condition true calls
\* notify_one(); the serialize thread is never blocked without a pending
\* notification while the iterator is not at the end or while ~Log() has
\* set mClosing and made its notify_one() call; and, under fair scheduling,
\* a serialize thread blocked while the condition is true goes on to execute
\* the entry at the iterator or to the closing path.
C19_NoLostWakeup ==
    /\ [][(IsWriteStep /\ ~WaitConditionTrue /\ WaitConditionTrue') => notifyCalled']_vars
    /\ []((/\ serializePc = "blocked"
           /\ \/ mCurrentLog # End
              \/ mClosing /\ dtorPc # "notify") => mNotificationVariable)
    /\ (serializePc = "blocked" /\ WaitConditionTrue) ~> (serializePc \in {"exec", "closing"})

\* The serialize thread is blocked with a notification pending after the
\* owner of the floor, whose earlier entry was executed, appended at the end
\* iterator.
C19_Witness ==
    /\ ~mClosing
    /\ serializePc = "blocked"
    /\ mNotificationVariable
    /\ notifyCalled
    /\ mCurrentLog # End
    /\ executed # <<>>
    /\ Last(executed).mThreadId = mCurrentThreadId
    /\ mLogQueue[mCurrentLog].mThreadId = mCurrentThreadId

\* C20: while mLogMutex is free and serialize() has not returned, an owner
\* whose iterator is at the end has no entry in the queue, and with no
\* owner the queue is empty.
C20_OwnerEntryNeverStranded ==
    (mLogMutex = "free" /\ serializePc # "done") =>
        /\ (mCurrentThreadId # NoThread /\ mCurrentLog = End) =>
               OfThread(mLogQueue, mCurrentThreadId) = <<>>
        /\ mCurrentThreadId = NoThread => mLogQueue = <<>>

\* The serialize thread is blocked, the owner's iterator is at the end
\* after one of its entries was executed, and entries of two other threads
\* are queued.
C20_Witness ==
    /\ mLogMutex = "free"
    /\ serializePc = "blocked"
    /\ mCurrentThreadId # NoThread
    /\ mCurrentLog = End
    /\ executed # <<>>
    /\ Len(mLogQueue) = 2
    /\ mLogQueue[1].mThreadId # mLogQueue[2].mThreadId

====
